---- MODULE Spec2Model ----
(***************************************************************************)
(* The character-level LSTM text generator of the notebook                  *)
(* "Text Generation With LSTM Recurrent Neural Networks" (the cells of      *)
(* A_Gentle_Introduction_..._with_NumPy-checkpoint.ipynb): the character    *)
(* map, the sliding-window dataset, the tensors handed to Keras, the        *)
(* ModelCheckpoint callback during fit, load_weights and the generation     *)
(* loop.                                                                    *)
(*                                                                          *)
(* Characters are byte values (Python 2 str): 65 is 'A', 97 'a', 98 'b',    *)
(* 99 'c'.  A Python list is a sequence; list index k is position k + 1.    *)
(* A float quotient v / float(n) is kept exactly, as [num |-> v, den |-> n].*)
(***************************************************************************)
EXTENDS Integers, Sequences, FiniteSets, TLC

\* ---------------------------------------------------------------- bounds
\* Longest text of wonderland.txt that is enumerated.
MaxLen == 6
\* The window length (100 in the notebook), scaled down with the texts.
seq_length == 2
\* The number of generated characters (range(1000) in the notebook).
n_generate == 3
\* The byte values a text is drawn from: one upper-case and three lower-case.
Alphabet == {65, 97, 98, 99}

\* model.fit(..., epochs=20, ...), scaled down with the losses enumerated.
epochs == 5
\* The losses an epoch can end with, in units of 1e-5 (the precision of the
\* callback's log, "loss improved from 2.07430 to 2.05181"): LossLow,
\* LossLow + LossStep, ..., LossLow + MaxLossIdx * LossStep.
LossLow == 205172
LossStep == 2
MaxLossIdx == 3
Losses == {LossLow + LossStep * k : k \in 0..MaxLossIdx}

\* rand(1000): the sample size, scaled down.
n_samples == 2
\* Bits of a float's significand (53 for the float64 of numpy), scaled down:
\* a float is kept as a whole number of units of 2^-MantBits.
MantBits == 5
\* The samples whose rank correlation is compared: at most RankLen values,
\* each in 0..MaxVal, transformed into 0..MaxImage.
RankLen == 3
MaxVal == 2
MaxImage == 3

\* The vectors handed to cov(): at most CovLen values, each from CovValues.
CovLen == 4
CovValues == {0, 1, 4}

\* The random forest: ntree trees (2000 in the script), of which only the
\* class each gives to each of the n_val validation rows matters.
ntree == 2
n_val == 3
mtry == 2
Classes == {"M", "R"}

VARIABLES
    pc,           \* the cell / statement the script is at
    err,          \* the exception that ended the script ("" while none)
    raw_text,     \* raw_text
    chars,        \* chars
    char_to_int,  \* char_to_int
    int_to_char,  \* int_to_char
    n_chars,      \* n_chars
    n_vocab,      \* n_vocab
    i,            \* the loop variable of the dataset loop
    dataX,        \* dataX: list of lists
    dataY,        \* dataY
    n_patterns,   \* n_patterns
    X,            \* X after reshape and normalisation
    y,            \* y = to_categorical(dataY)
    out_units,    \* units of the Dense softmax layer, y.shape[1]
    start,        \* start
    pattern_ref,  \* what the name `pattern` is bound to: "unset", the list
                  \* object dataX[start] ("dataX"), or a list of its own ("own")
    pattern_own,  \* the list object `pattern` owns when pattern_ref = "own"
    x,            \* x of the current generation iteration
    gi,           \* the loop variable of the generation loop
    output,       \* what sys.stdout.write has written, one character each
    seed,         \* history: the value of dataX[start] when it was picked
    generated,    \* history: the indices generated so far
    epoch,        \* epochs of model.fit completed
    history,      \* History.history['loss']: the loss of each completed epoch
    best,         \* ModelCheckpoint.best
    files,        \* the checkpoint files in the local directory
    weights,      \* the weights the model holds: 0 untrained, e as they are
                  \* at the end of epoch e
    \* the rank correlation notebook
    data1,        \* data1
    data2,        \* data2
    tf,           \* a strictly increasing transformation of the values
    coefs,        \* the coefficients spearmanr and kendalltau have returned
    \* the covariance matrix cells
    cov_x,        \* x
    cov_y,        \* y
    Sigma,        \* Sigma
    \* save_and_finalize_ml_model_in_R.Rmd, section 3
    final_model,  \* final_model
    rds,          \* the content of ./final_model.rds (<<>> while no file)
    rds_written,  \* history: saveRDS has written the file in this run
    super_model,  \* super_model
    final_predictions  \* final_predictions

vars == <<pc, err, raw_text, chars, char_to_int, int_to_char, n_chars, n_vocab,
          i, dataX, dataY, n_patterns, X, y, out_units, start, pattern_ref,
          pattern_own, x, gi, output, seed, generated,
          epoch, history, best, files, weights,
          data1, data2, tf, coefs, cov_x, cov_y, Sigma,
          final_model, rds, rds_written, super_model, final_predictions>>

dataVars == <<raw_text, chars, char_to_int, int_to_char, n_chars, n_vocab, i,
              dataX, dataY, n_patterns, X, y, out_units, start, pattern_ref,
              pattern_own, x, gi, output, seed, generated>>
fitVars == <<epoch, history, best, files, weights>>
rankVars == <<data1, data2, tf, coefs>>
covVars == <<cov_x, cov_y, Sigma>>
rVars == <<final_model, rds, rds_written, super_model, final_predictions>>
otherVars == <<rankVars, covVars, rVars>>

\* ------------------------------------------------------- Python builtins
Min(a, b) == IF a <= b THEN a ELSE b
Max(a, b) == IF a >= b THEN a ELSE b

\* s[a:b] for 0 <= a: the elements with list index a .. b-1, cut at the end.
Slice(s, a, b) == [k \in 1..Max(0, Min(b, Len(s)) - a) |-> s[a + k]]

\* str.lower() on one byte.
LowerChar(c) == IF c >= 65 /\ c <= 90 THEN c + 32 ELSE c
lower(s) == [k \in 1..Len(s) |-> LowerChar(s[k])]

\* set(s)
SetOf(s) == {s[k] : k \in 1..Len(s)}

\* list(S) of a set: the elements in some order (sorted() follows, so the
\* order chosen does not show).
RECURSIVE ListOf(_)
ListOf(S) == IF S = {} THEN <<>>
             ELSE LET a == CHOOSE e \in S : TRUE IN <<a>> \o ListOf(S \ {a})

RECURSIVE Insert(_, _)
Insert(a, s) == IF s = <<>> THEN <<a>>
                ELSE IF a <= Head(s) THEN <<a>> \o s
                ELSE <<Head(s)>> \o Insert(a, Tail(s))

\* sorted(s): ascending, duplicates kept.
RECURSIVE sorted(_)
sorted(s) == IF s = <<>> THEN <<>> ELSE Insert(Head(s), sorted(Tail(s)))

\* dict(pairs): built pair by pair, a later pair replacing an earlier one
\* with the same key.
RECURSIVE DictOf(_)
DictOf(pairs) ==
    IF pairs = <<>> THEN <<>>
    ELSE LET d == DictOf(SubSeq(pairs, 1, Len(pairs) - 1))
             p == pairs[Len(pairs)]
         IN [k \in (DOMAIN d) \cup {p[1]} |-> IF k = p[1] THEN p[2] ELSE d[k]]

\* ------------------------------------------------------ the character map
\* the set() left out: chars = sorted(list(raw_text))
CharsNoSet(text) == sorted(text)
\* chars = sorted(list(set(raw_text)))
MkChars(text) == sorted(ListOf(SetOf(text)))

\* enumerate(chars, 1) in place of enumerate(chars)
CharToIntFromOne(cs) == DictOf([k \in 1..Len(cs) |-> <<cs[k], k>>])
\* char_to_int = dict((c, i) for i, c in enumerate(chars))
MkCharToInt(cs) == DictOf([k \in 1..Len(cs) |-> <<cs[k], k - 1>>])

\* enumerate(chars, 1) in place of enumerate(chars)
IntToCharFromOne(cs) == DictOf([k \in 1..Len(cs) |-> <<k, cs[k]>>])
\* int_to_char = dict((i, c) for i, c in enumerate(chars))
MkIntToChar(cs) == DictOf([k \in 1..Len(cs) |-> <<k - 1, cs[k]>>])

\* -------------------------------------------------- the dataset of windows
\* range(0, n_chars - seq_length - 1, 1)
LoopStopShort(n) == n - seq_length - 1
\* the stop of range(0, n_chars - seq_length, 1)
LoopStop(n) == n - seq_length

\* raw_text[i + 1:i + 1 + seq_length]
SeqInLate(text, k) == Slice(text, k + 1, k + 1 + seq_length)
\* seq_in = raw_text[i:i + seq_length]
SeqIn(text, k) == Slice(text, k, k + seq_length)

\* seq_out = raw_text[i + seq_length]
SeqOut(text, k) == text[k + seq_length + 1]

\* [char_to_int[char] for char in seq_in]
Encode(m, s) == [k \in 1..Len(s) |-> m[s[k]]]

\* ------------------------------------------------- the tensors for Keras
\* numpy.reshape(d, (len(d), seq_length, 1)): one feature per time step.
Reshape3(d) == [p \in 1..Len(d) |-> [t \in 1..Len(d[p]) |-> <<d[p][t]>>]]

\* T / float(n), elementwise.
Normalize(T, n) ==
    [p \in 1..Len(T) |->
        [t \in 1..Len(T[p]) |-> <<[num |-> T[p][t][1], den |-> n]>>]]

\* numpy.max of a non-empty vector.
RECURSIVE MaxOf(_)
MaxOf(v) == IF Len(v) = 1 THEN v[1] ELSE Max(v[1], MaxOf(Tail(v)))

\* np_utils.to_categorical(v) without num_classes: num_classes is
\* numpy.max(v) + 1; row r is zero but for a 1 in column v[r].
NumClasses(v) == MaxOf(v) + 1
\* the 1 put one column to the right (cyclically)
ToCategoricalNextColumn(v) ==
    [r \in 1..Len(v) |->
        [c \in 0..(NumClasses(v) - 1) |->
            IF c = (v[r] + 1) % NumClasses(v) THEN 1 ELSE 0]]
to_categorical(v) ==
    [r \in 1..Len(v) |->
        [c \in 0..(NumClasses(v) - 1) |-> IF c = v[r] THEN 1 ELSE 0]]

\* y.shape[1]
Shape1(m) == Cardinality(DOMAIN m[1])

\* ------------------------------------------------------------ generation
\* The list object the name `pattern` is bound to.
Pattern == IF pattern_ref = "dataX" THEN dataX[start + 1] ELSE pattern_own

\* pattern[0:len(pattern) - 1]
DropLast(p) == SubSeq(p, 1, Len(p) - 1)
\* pattern[1:len(pattern)]
TrimFirst(p) == Slice(p, 1, Len(p))

\* i in range(n + 1)
InRangeOneMore(k, n) == k <= n
\* for i in range(n): the loop goes on while i < n
InRange(k, n) == k < n

\* x = numpy.reshape(pattern, (1, len(pattern), 1)); x = x / float(n_vocab)
GenInput(p, n) == Normalize(Reshape3(<<p>>), n)

\* ------------------------------------------------------------ the script
Texts == UNION {[1..n -> Alphabet] : n \in 0..MaxLen}

NoBest == [inf |-> TRUE, v |-> 0]

InitData ==
    /\ err = ""
    /\ chars = <<>> /\ char_to_int = <<>> /\ int_to_char = <<>>
    /\ n_chars = 0 /\ n_vocab = 0
    /\ i = 0 /\ dataX = <<>> /\ dataY = <<>> /\ n_patterns = 0
    /\ X = <<>> /\ y = <<>> /\ out_units = 0
    /\ start = 0 /\ pattern_ref = "unset" /\ pattern_own = <<>>
    /\ x = <<>> /\ gi = 0 /\ output = <<>> /\ seed = <<>> /\ generated = <<>>

InitFit ==
    /\ epoch = 0 /\ history = <<>> /\ best = NoBest /\ files = {}
    /\ weights = 0

InitRank == data1 = <<>> /\ data2 = <<>> /\ tf = <<>> /\ coefs = <<>>

InitCov == cov_x = <<>> /\ cov_y = <<>> /\ Sigma = <<>>

InitR ==
    /\ final_model = <<>> /\ rds = <<>> /\ rds_written = FALSE
    /\ super_model = <<>> /\ final_predictions = <<>>

\* raw_text = open(filename).read(): any text of the file.
Init ==
    /\ pc = "lower"
    /\ raw_text \in Texts
    /\ InitData
    /\ InitFit
    /\ InitRank /\ InitCov /\ InitR

\* raw_text = raw_text.lower()
Lower ==
    /\ pc = "lower"
    /\ raw_text' = lower(raw_text)
    /\ pc' = "map"
    /\ UNCHANGED <<err, chars, char_to_int, int_to_char, n_chars, n_vocab, i,
                   dataX, dataY, n_patterns, X, y, out_units, start,
                   pattern_ref, pattern_own, x, gi, output, seed, generated,
                   fitVars, otherVars>>

\* chars, char_to_int and (full listing of the generator) int_to_char
MapChars ==
    /\ pc = "map"
    /\ chars' = MkChars(raw_text)
    /\ char_to_int' = MkCharToInt(chars')
    /\ int_to_char' = MkIntToChar(chars')
    /\ pc' = "summarize"
    /\ UNCHANGED <<err, raw_text, n_chars, n_vocab, i, dataX, dataY,
                   n_patterns, X, y, out_units, start, pattern_ref,
                   pattern_own, x, gi, output, seed, generated, fitVars, otherVars>>

\* n_chars = len(raw_text); n_vocab = len(chars); dataX = []; dataY = []
Summarize ==
    /\ pc = "summarize"
    /\ n_chars' = Len(raw_text)
    /\ n_vocab' = Len(chars)
    /\ dataX' = <<>> /\ dataY' = <<>> /\ i' = 0
    /\ pc' = "dataset"
    /\ UNCHANGED <<err, raw_text, chars, char_to_int, int_to_char, n_patterns,
                   X, y, out_units, start, pattern_ref, pattern_own, x, gi,
                   output, seed, generated, fitVars, otherVars>>

\* one pass of: for i in range(0, n_chars - seq_length, 1)
BuildStep ==
    /\ pc = "dataset"
    /\ i < LoopStop(n_chars)
    /\ dataX' = Append(dataX, Encode(char_to_int, SeqIn(raw_text, i)))
    /\ dataY' = Append(dataY, char_to_int[SeqOut(raw_text, i)])
    /\ i' = i + 1
    /\ UNCHANGED <<pc, err, raw_text, chars, char_to_int, int_to_char, n_chars,
                   n_vocab, n_patterns, X, y, out_units, start, pattern_ref,
                   pattern_own, x, gi, output, seed, generated, fitVars, otherVars>>

\* the loop is over: n_patterns = len(dataX)
BuildDone ==
    /\ pc = "dataset"
    /\ ~(i < LoopStop(n_chars))
    /\ n_patterns' = Len(dataX)
    /\ pc' = "tensors"
    /\ UNCHANGED <<err, raw_text, chars, char_to_int, int_to_char, n_chars,
                   n_vocab, i, dataX, dataY, X, y, out_units, start,
                   pattern_ref, pattern_own, x, gi, output, seed, generated,
                   fitVars, otherVars>>

\* X = reshape(dataX, ...); X = X / float(n_vocab); y = to_categorical(dataY).
\* numpy.max of an empty dataY raises ValueError inside to_categorical.
Tensors ==
    /\ pc = "tensors"
    /\ X' = Normalize(Reshape3(dataX), n_vocab)
    /\ IF dataY = <<>>
       THEN /\ pc' = "error" /\ err' = "ValueError" /\ y' = y
       ELSE /\ pc' = "define" /\ err' = err /\ y' = to_categorical(dataY)
    /\ UNCHANGED <<raw_text, chars, char_to_int, int_to_char, n_chars, n_vocab,
                   i, dataX, dataY, n_patterns, out_units, start, pattern_ref,
                   pattern_own, x, gi, output, seed, generated, fitVars, otherVars>>

\* model.add(Dense(y.shape[1], activation='softmax'))
DefineModel ==
    /\ pc = "define"
    /\ out_units' = Shape1(y)
    /\ pc' = "weights"
    /\ UNCHANGED <<err, raw_text, chars, char_to_int, int_to_char, n_chars,
                   n_vocab, i, dataX, dataY, n_patterns, X, y, start,
                   pattern_ref, pattern_own, x, gi, output, seed, generated,
                   fitVars, otherVars>>

\* model.fit(...) and model.load_weights(filename), whose steps are FitEpoch
\* and LoadWeights below: here only their outcome counts, the weights file
\* is there or load_weights raises IOError.
FitAndLoad ==
    /\ pc = "weights"
    /\ \E found \in BOOLEAN :
          IF found THEN pc' = "seed" /\ err' = err
                   ELSE pc' = "error" /\ err' = "IOError"
    /\ UNCHANGED <<dataVars, fitVars, otherVars>>

\* start = numpy.random.randint(0, len(dataX)-1); pattern = dataX[start].
\* randint draws from [0, len(dataX)-1) and raises ValueError when that
\* range is empty.  `pattern` is bound to the list object dataX[start].
PickSeed ==
    /\ pc = "seed"
    /\ IF Len(dataX) - 1 <= 0
       THEN /\ pc' = "error" /\ err' = "ValueError"
            /\ UNCHANGED <<start, pattern_ref, seed>>
       ELSE /\ \E s \in 0..(Len(dataX) - 2) :
                  /\ start' = s
                  /\ seed' = dataX[s + 1]
            /\ pattern_ref' = "dataX"
            /\ pc' = "generate" /\ err' = err
    /\ gi' = 0
    /\ UNCHANGED <<raw_text, chars, char_to_int, int_to_char, n_chars, n_vocab,
                   i, dataX, dataY, n_patterns, X, y, out_units, pattern_own,
                   x, output, generated, fitVars, otherVars>>

\* one pass of: for i in range(1000).  index = argmax(prediction) is a
\* column of the softmax layer, whatever the weights.
GenStep ==
    /\ pc = "generate"
    /\ InRange(gi, n_generate)
    /\ x' = GenInput(Pattern, n_vocab)
    /\ \E index \in 0..(out_units - 1) :
          /\ output' = Append(output, int_to_char[index])
          /\ generated' = Append(generated, index)
          \* pattern.append(index) changes the list object in place;
          \* pattern = pattern[1:len(pattern)] binds the name to a new list.
          /\ dataX' = IF pattern_ref = "dataX"
                       THEN [dataX EXCEPT ![start + 1] = Append(@, index)]
                       ELSE dataX
          /\ pattern_own' = TrimFirst(Append(Pattern, index))
    /\ pattern_ref' = "own"
    /\ gi' = gi + 1
    /\ UNCHANGED <<pc, err, raw_text, chars, char_to_int, int_to_char, n_chars,
                   n_vocab, i, dataY, n_patterns, X, y, out_units, start, seed,
                   fitVars, otherVars>>

\* the loop is over: print "\nDone."
GenDone ==
    /\ pc = "generate"
    /\ ~InRange(gi, n_generate)
    /\ pc' = "done"
    /\ UNCHANGED <<err, dataVars, fitVars, otherVars>>

Next ==
    \/ Lower
    \/ MapChars
    \/ Summarize
    \/ BuildStep
    \/ BuildDone
    \/ Tensors
    \/ DefineModel
    \/ FitAndLoad
    \/ PickSeed
    \/ GenStep
    \/ GenDone

Spec == Init /\ [][Next]_vars

\* ------------------------------------------- fit with the checkpoint callback
\* "{loss:.4f}" of a loss given in units of 1e-5: rounded to units of 1e-4
\* (a tie, which the float's binary value decides, is rounded up here).
Fmt4(loss) == (loss + 5) \div 10

\* filepath.format(epoch=epoch + 1, **logs) of
\* "weights-improvement-{epoch:02d}-{loss:.4f}.hdf5": the name is told by
\* its two fields.
Filepath(e, loss) == <<e, Fmt4(loss)>>

\* filename = "weights-improvement-20-2.0518.hdf5": the last epoch (20 of
\* 20 in the notebook) and the loss 2.0518.
load_filename == <<epochs, 20518>>

\* numpy.less_equal in place of numpy.less.
MonitorOpLessEqual(current, b) == b.inf \/ current <= b.v
\* ModelCheckpoint(monitor='loss', mode='min'): monitor_op = numpy.less and
\* best = numpy.Inf to begin with.
monitor_op(current, b) == b.inf \/ current < b.v

\* model.save(filepath, overwrite=True) of the weights w.
Save(fs, name, w) == {f \in fs : f.name # name} \cup {[name |-> name, weights |-> w]}

\* The script starts at model.fit: the text plays no part in the callback.
InitFitOnly ==
    /\ pc = "fit"
    /\ raw_text = <<>>
    /\ InitData
    /\ InitFit
    /\ InitRank /\ InitCov /\ InitR

\* One epoch of model.fit(X, y, epochs=20, ...) ending with
\* ModelCheckpoint.on_epoch_end (save_best_only=True, period 1).
FitEpoch ==
    /\ pc = "fit"
    /\ epoch < epochs
    /\ \E loss \in Losses :
          /\ history' = Append(history, loss)
          /\ IF monitor_op(loss, best)
             THEN /\ best' = [inf |-> FALSE, v |-> loss]
                  /\ files' = Save(files, Filepath(epoch + 1, loss), epoch + 1)
             ELSE /\ UNCHANGED <<best, files>>
    /\ epoch' = epoch + 1
    /\ weights' = epoch + 1
    /\ UNCHANGED <<pc, err, dataVars, otherVars>>

\* model.fit returns after the last epoch
FitDone ==
    /\ pc = "fit"
    /\ ~(epoch < epochs)
    /\ pc' = "load"
    /\ UNCHANGED <<err, dataVars, fitVars, otherVars>>

\* model.load_weights(filename): IOError when there is no such file.
LoadWeights ==
    /\ pc = "load"
    /\ IF \E f \in files : f.name = load_filename
       THEN /\ weights' = (CHOOSE f \in files : f.name = load_filename).weights
            /\ pc' = "loaded" /\ err' = err
       ELSE /\ weights' = weights
            /\ pc' = "error" /\ err' = "IOError"
    /\ UNCHANGED <<dataVars, epoch, history, best, files, otherVars>>

NextFit ==
    \/ FitEpoch
    \/ FitDone
    \/ LoadWeights

SpecFit == InitFitOnly /\ [][NextFit]_vars

\* ------------------------------------------------ floats of MantBits bits
Pow2(e) == 2 ^ e

\* The least number whose significand needs more than MantBits bits.
MantLimit == Pow2(MantBits)

\* The bits of n >= 0 beyond the MantBits a significand holds.
RECURSIVE ExcessBits(_)
ExcessBits(n) == IF n < MantLimit THEN 0 ELSE 1 + ExcessBits(n \div 2)

\* Round to nearest, ties to even: the float an exact result n >= 0 is
\* stored as.
RoundFloat(n) ==
    LET e == ExcessBits(n)
        q == n \div Pow2(e)
        r == n % Pow2(e)
    IN IF e = 0 THEN n
       ELSE IF 2 * r > Pow2(e) \/ (2 * r = Pow2(e) /\ q % 2 = 1)
            THEN (q + 1) * Pow2(e)
            ELSE q * Pow2(e)

\* The float v, a whole number, in units.
FloatOf(v) == v * Pow2(MantBits)

\* numpy.random.rand draws k / 2^MantBits, 0 <= k < 2^MantBits: k units.
\* The draws enumerated: the ends, the middle, and one in the top binade.
RandDraws == {0, 1, Pow2(MantBits - 1), Pow2(MantBits) - Pow2(MantBits - 3),
              Pow2(MantBits) - 1}

\* rand(n) * 20, one element
Times20(k) == RoundFloat(k * 20)
\* rand(n) * 20 for the second sample too
SecondTimes20(k) == RoundFloat(k * 20)
\* rand(n) * 10, one element
Times10(k) == RoundFloat(k * 10)
\* a + b of two floats
FloatAdd(a, b) == RoundFloat(a + b)

\* ---------------------------------------------------- rank correlation
RECURSIVE GCD(_, _)
GCD(a, b) == IF b = 0 THEN a ELSE GCD(b, a % b)

Sgn(a) == IF a > 0 THEN 1 ELSE IF a < 0 THEN -1 ELSE 0

RECURSIVE SumTo(_, _)
\* sum of f(1) .. f(n) for a sequence f
SumTo(f, n) == IF n = 0 THEN 0 ELSE f[n] + SumTo(f, n - 1)
Sum(f) == SumTo(f, Len(f))

\* The value num / sqrt(den2) in lowest terms: its sign and its square as a
\* reduced fraction; nan when den2 = 0 (a constant sample).
Coef(num, den2) ==
    IF den2 = 0 THEN [nan |-> TRUE, sign |-> 0, n2 |-> 0, d2 |-> 0]
    ELSE LET g == GCD(num * num, den2)
         IN [nan |-> FALSE, sign |-> Sgn(num),
             n2 |-> (num * num) \div g, d2 |-> den2 \div g]

\* the values themselves in place of their ranks
NoRanks(a) == [k \in 1..Len(a) |-> 2 * a[k]]
\* scipy.stats.rankdata(a), ties given their average rank, doubled to stay
\* whole: twice the rank of a[k] is 2 * #smaller + #equal + 1.
Ranks2(a) ==
    [k \in 1..Len(a) |->
        2 * Cardinality({j \in 1..Len(a) : a[j] < a[k]})
        + Cardinality({j \in 1..Len(a) : a[j] = a[k]}) + 1]

\* Pearson's r of u and v: (n Suv - Su Sv) / sqrt((n Suu - Su^2)(n Svv - Sv^2))
Pearson(u, v) ==
    LET n == Len(u)
        Suv == Sum([k \in 1..n |-> u[k] * v[k]])
        Suu == Sum([k \in 1..n |-> u[k] * u[k]])
        Svv == Sum([k \in 1..n |-> v[k] * v[k]])
    IN Coef(n * Suv - Sum(u) * Sum(v),
            (n * Suu - Sum(u) * Sum(u)) * (n * Svv - Sum(v) * Sum(v)))

\* scipy.stats.spearmanr(a, b): Pearson's r of the ranks
spearmanr(a, b) == Pearson(Ranks2(a), Ranks2(b))

\* The pairs j < k of positions.
Pairs(n) == {p \in (1..n) \X (1..n) : p[1] < p[2]}

\* scipy.stats.kendalltau(a, b), tau-b:
\* (concordant - discordant) / sqrt((n0 - n1)(n0 - n2)), n1 and n2 the pairs
\* tied in a and in b.
kendalltau(a, b) ==
    LET n == Len(a)
        con == Cardinality({p \in Pairs(n) :
                  (a[p[1]] - a[p[2]]) * (b[p[1]] - b[p[2]]) > 0})
        dis == Cardinality({p \in Pairs(n) :
                  (a[p[1]] - a[p[2]]) * (b[p[1]] - b[p[2]]) < 0})
        n0 == Cardinality(Pairs(n))
        n1 == Cardinality({p \in Pairs(n) : a[p[1]] = a[p[2]]})
        n2 == Cardinality({p \in Pairs(n) : b[p[1]] = b[p[2]]})
    IN Coef(con - dis, (n0 - n1) * (n0 - n2))

\* The rank correlation script starts at "# prepare data".
InitRankScript ==
    /\ pc = "data1"
    /\ raw_text = <<>>
    /\ InitData
    /\ InitFit
    /\ InitRank /\ InitCov /\ InitR

\* data1 = rand(1000) * 20
PrepareData1 ==
    /\ pc = "data1"
    /\ \E ks \in [1..n_samples -> RandDraws] :
          data1' = [k \in 1..n_samples |-> Times20(ks[k])]
    /\ pc' = "data2"
    /\ UNCHANGED <<err, dataVars, fitVars, data2, tf, coefs, covVars, rVars>>

\* data2 = data1 + (rand(1000) * 10)
PrepareData2 ==
    /\ pc = "data2"
    /\ \E ks \in [1..n_samples -> RandDraws] :
          data2' = [k \in 1..Len(data1) |-> FloatAdd(data1[k], Times10(ks[k]))]
    /\ pc' = "spearman"
    /\ UNCHANGED <<err, dataVars, fitVars, data1, tf, coefs, covVars, rVars>>

\* coef, p = spearmanr(data1, data2)
Spearman ==
    /\ pc = "spearman"
    /\ coefs' = [rho |-> spearmanr(data1, data2)]
    /\ pc' = "kendall"
    /\ UNCHANGED <<err, dataVars, fitVars, data1, data2, tf, covVars, rVars>>

\* coef, p = kendalltau(data1, data2)
Kendall ==
    /\ pc = "kendall"
    /\ coefs' = [rho |-> coefs.rho, tau |-> kendalltau(data1, data2)]
    /\ pc' = "done"
    /\ UNCHANGED <<err, dataVars, fitVars, data1, data2, tf, covVars, rVars>>

NextRank ==
    \/ PrepareData1
    \/ PrepareData2
    \/ Spearman
    \/ Kendall

SpecRank == InitRankScript /\ [][NextRank]_vars

\* The strictly increasing maps of the sample values.
Increasing ==
    {f \in [0..MaxVal -> 0..MaxImage] : \A u, v \in 0..MaxVal : u < v => f[u] < f[v]}

\* f applied to every value of a sample
Transformed(f, a) == [k \in 1..Len(a) |-> f[a[k]]]

\* Any two samples of equal length and any strictly increasing map.
InitRankPairs ==
    /\ pc = "spearman_t"
    /\ raw_text = <<>>
    /\ InitData
    /\ InitFit
    /\ InitCov /\ InitR
    /\ \E n \in 1..RankLen :
          /\ data1 \in [1..n -> 0..MaxVal]
          /\ data2 \in [1..n -> 0..MaxVal]
    /\ tf \in Increasing
    /\ coefs = <<>>

\* spearmanr of the samples as they are, and with one of them transformed
SpearmanTransformed ==
    /\ pc = "spearman_t"
    /\ coefs' = [rho |-> spearmanr(data1, data2),
                 rho_a |-> spearmanr(Transformed(tf, data1), data2),
                 rho_b |-> spearmanr(data1, Transformed(tf, data2))]
    /\ pc' = "kendall_t"
    /\ UNCHANGED <<err, dataVars, fitVars, data1, data2, tf, covVars, rVars>>

\* kendalltau of the samples as they are, and with one of them transformed
KendallTransformed ==
    /\ pc = "kendall_t"
    /\ coefs' = [rho |-> coefs.rho, rho_a |-> coefs.rho_a, rho_b |-> coefs.rho_b,
                 tau |-> kendalltau(data1, data2),
                 tau_a |-> kendalltau(Transformed(tf, data1), data2),
                 tau_b |-> kendalltau(data1, Transformed(tf, data2))]
    /\ pc' = "done_t"
    /\ UNCHANGED <<err, dataVars, fitVars, data1, data2, tf, covVars, rVars>>

NextRankPairs ==
    \/ SpearmanTransformed
    \/ KendallTransformed

SpecRankPairs == InitRankPairs /\ [][NextRankPairs]_vars

\* ------------------------------------------------ covariance matrix
\* Floats of the covariance cells: integer multiples of 1/Unit whose
\* significand has MantBits bits; nan is kept apart from the numbers.
Unit == Pow2(2 * MantBits)

Abs(n) == IF n < 0 THEN -n ELSE n

NaN == [nan |-> TRUE, v |-> 0]
Num(v) == [nan |-> FALSE, v |-> v]

\* == on floats: nan equals nothing, itself included
FloatEq(a, b) == ~a.nan /\ ~b.nan /\ a.v = b.v

\* num / den rounded to the nearest float, ties to even (den > 0)
RoundQuot(num, den) ==
    LET a == Abs(num)
        e == ExcessBits(a \div den)
        g == Pow2(e) * den
        k == a \div g
        r == a % g
        m == IF 2 * r > g \/ (2 * r = g /\ k % 2 = 1) THEN (k + 1) * Pow2(e)
             ELSE k * Pow2(e)
    IN  IF num < 0 THEN -m ELSE m

FloatPlus(a, b) == RoundQuot(a + b, 1)
FloatMul(a, b) == RoundQuot(a * b, Unit)
FloatDiv(a, b) == RoundQuot(a * Unit, b)

\* add.reduce: the first n elements added left to right
RECURSIVE FloatSumTo(_, _)
FloatSumTo(a, n) == IF n = 0 THEN 0 ELSE FloatPlus(FloatSumTo(a, n - 1), a[n])

\* array(...) converted to float
AsFloat(a) == [k \in 1..Len(a) |-> a[k] * Unit]

mean(a) == FloatDiv(FloatSumTo(a, Len(a)), Len(a) * Unit)

\* a - mean(a)
Centered(a) == LET m == mean(a) IN [k \in 1..Len(a) |-> FloatPlus(a[k], -m)]

dot(a, b) == FloatSumTo([k \in 1..Len(a) |-> FloatMul(a[k], b[k])], Len(a))

\* the population normalisation, ddof = 0
factBiased(n) == n

\* cov()'s normalisation with its default ddof = 1
fact(n) == n - 1

\* numpy.cov(x, y): the rows x and y are centred, multiplied with their
\* transpose, and the products scaled by the float 1 / fact; a fact of 0
\* scales by infinity and every entry is nan.  Rows and columns are 1, 2
\* here and 0, 1 in the notebook.
cov(a, b) ==
    LET Xm == <<Centered(AsFloat(a)), Centered(AsFloat(b))>>
        f == fact(Len(a))
        scale == FloatDiv(Unit, f * Unit)
    IN  [r \in 1..2 |-> [c \in 1..2 |->
            IF f <= 0 THEN NaN ELSE Num(FloatMul(dot(Xm[r], Xm[c]), scale))]]

\* numpy.var(a, ddof): the sum of the squared deviations divided by
\* max(n - ddof, 0); 0 / 0 is nan
var(a, ddof) ==
    LET d == Centered(AsFloat(a))
        rcount == Max(Len(a) - ddof, 0)
    IN  IF rcount = 0 THEN NaN ELSE Num(FloatDiv(dot(d, d), rcount * Unit))

\* sum (x - E[X]) * (y - E[Y]) * 1/(n - 1)
SampleCov(a, b) ==
    LET n == Len(a)
    IN  IF n - 1 <= 0 THEN NaN
        ELSE Num(FloatMul(dot(Centered(AsFloat(a)), Centered(AsFloat(b))),
                          FloatDiv(Unit, (n - 1) * Unit)))

InitCovScript ==
    /\ pc = "xy"
    /\ raw_text = <<>>
    /\ InitData
    /\ InitFit
    /\ InitRank /\ InitCov /\ InitR

\* x = array([...]), y = array([...]): two vectors of one length
DefineXY ==
    /\ pc = "xy"
    /\ \E n \in 1..CovLen :
          /\ cov_x' \in [1..n -> CovValues]
          /\ cov_y' \in [1..n -> CovValues]
    /\ pc' = "cov"
    /\ UNCHANGED <<err, dataVars, fitVars, rankVars, Sigma, rVars>>

\* Sigma = cov(x,y)
Cov ==
    /\ pc = "cov"
    /\ Sigma' = cov(cov_x, cov_y)
    /\ pc' = "cov_done"
    /\ UNCHANGED <<err, dataVars, fitVars, rankVars, cov_x, cov_y, rVars>>

NextCov ==
    \/ DefineXY
    \/ Cov

SpecCov == InitCovScript /\ [][NextCov]_vars

\* ------------------------------------------------ saveRDS / readRDS
ClassCode(c) == IF c = "M" THEN 1 ELSE 2
ClassOf(k) == IF k = 1 THEN "M" ELSE "R"

\* The fits randomForest() can return: every tree classifies every row.
Fits ==
    {[ntree |-> ntree, mtry |-> mtry, forest |-> f] :
        f \in [1..ntree -> [1..n_val -> Classes]]}

\* The stream saveRDS writes: the parameters, then the trees one after the
\* other, each class as its integer code.
Serialize(m) ==
    <<m.ntree, m.mtry>> \o
    [k \in 1..(m.ntree * n_val) |->
        ClassCode(m.forest[((k - 1) \div n_val) + 1][((k - 1) % n_val) + 1])]

\* A reader that takes the stream row by row instead of tree by tree.
UnserializeByRow(s) ==
    LET nt == s[1]
        rows == (Len(s) - 2) \div nt
    IN  [ntree |-> nt, mtry |-> s[2],
         forest |-> [t \in 1..nt |-> [r \in 1..rows |->
                        ClassOf(s[2 + (r - 1) * nt + t])]]]

\* The object readRDS rebuilds from the stream.
Unserialize(s) ==
    LET nt == s[1]
        rows == (Len(s) - 2) \div nt
    IN  [ntree |-> nt, mtry |-> s[2],
         forest |-> [t \in 1..nt |-> [r \in 1..rows |->
                        ClassOf(s[2 + (t - 1) * rows + r])]]]

\* A file an earlier run of the script left behind.
StaleModel == [ntree |-> 1, mtry |-> mtry, forest |-> <<[r \in 1..n_val |-> "M"]>>]

Votes(m, r, c) == Cardinality({t \in 1..m.ntree : m.forest[t][r] = c})

\* The classes with the most votes for row r
Winners(m, r) == {c \in Classes : \A d \in Classes : Votes(m, r, c) >= Votes(m, r, d)}

\* predict(m, validation[,1:60]): the class with the most votes for each
\* row; predict breaks a tie at random, so each tied class can come out.
PredictOutcomes(m) ==
    {p \in [1..n_val -> Classes] : \A r \in 1..n_val : p[r] \in Winners(m, r)}

InitRScript ==
    /\ pc = "train"
    /\ raw_text = <<>>
    /\ InitData
    /\ InitFit
    /\ InitRank /\ InitCov
    /\ final_model = <<>> /\ super_model = <<>> /\ final_predictions = <<>>
    /\ rds \in {<<>>, Serialize(StaleModel)}
    /\ rds_written = FALSE

\* final_model <- randomForest(Class~., training, mtry=2, ntree=2000)
RandomForest ==
    /\ pc = "train"
    /\ final_model' \in Fits
    /\ pc' = "save"
    /\ UNCHANGED <<err, dataVars, fitVars, rankVars, covVars,
                   rds, rds_written, super_model, final_predictions>>

\* saveRDS(final_model, "./final_model.rds")
SaveRDS ==
    /\ pc = "save"
    /\ rds' = Serialize(final_model)
    /\ rds_written' = TRUE
    /\ pc' = "load"
    /\ UNCHANGED <<err, dataVars, fitVars, rankVars, covVars,
                   final_model, super_model, final_predictions>>

\* super_model <- readRDS("./final_model.rds")
ReadRDS ==
    /\ pc = "load"
    /\ IF rds = <<>>
       THEN /\ err' = "cannot open file"
            /\ pc' = "error"
            /\ UNCHANGED super_model
       ELSE /\ super_model' = Unserialize(rds)
            /\ pc' = "predict"
            /\ UNCHANGED err
    /\ UNCHANGED <<dataVars, fitVars, rankVars, covVars,
                   final_model, rds, rds_written, final_predictions>>

\* final_predictions <- predict(super_model, validation[,1:60])
Predict ==
    /\ pc = "predict"
    /\ final_predictions' \in PredictOutcomes(super_model)
    /\ pc' = "r_done"
    /\ UNCHANGED <<err, dataVars, fitVars, rankVars, covVars,
                   final_model, rds, rds_written, super_model>>

NextR ==
    \/ RandomForest
    \/ SaveRDS
    \/ ReadRDS
    \/ Predict

SpecR == InitRScript /\ [][NextR]_vars

\* ------------------------------------------------------------ properties
\* The dataset loop is over and generation has not begun.
Prepared == pc \in {"tensors", "define", "weights", "seed"}

\* The character map is built and summarised.
Mapped == pc \notin {"lower", "map", "summarize"}

\* C1: once the dataset loop is over, for every i with
\* 0 <= i < n_chars - seq_length, dataX[i] is the char_to_int encoding of the
\* seq_length characters raw_text[i .. i+seq_length-1] and dataY[i] the
\* encoding of the next character raw_text[i+seq_length].
C1_SlidingWindow ==
    Prepared =>
        \A k \in 0..(n_chars - seq_length - 1) :
            /\ k < Len(dataX) /\ k < Len(dataY)
            /\ Len(dataX[k + 1]) = seq_length
            /\ \A j \in 1..seq_length :
                   dataX[k + 1][j] = char_to_int[raw_text[k + j]]
            /\ dataY[k + 1] = char_to_int[raw_text[k + seq_length + 1]]

\* Two windows one character apart that differ have been built.
C1_Witness ==
    /\ pc = "tensors"
    /\ Len(dataX) >= 2
    /\ dataX[1] # dataX[2]
    /\ dataY[1] # dataY[2]

\* C2: after the dataset loop n_patterns = len(dataX) = len(dataY), which is
\* n_chars - seq_length when n_chars >= seq_length and 0 otherwise, and no
\* exception has been raised.
C2_PatternCount ==
    pc = "tensors" =>
        /\ err = ""
        /\ n_patterns = Len(dataX)
        /\ n_patterns = Len(dataY)
        /\ n_patterns = IF n_chars >= seq_length THEN n_chars - seq_length ELSE 0

\* The loop has run for a text longer than the window.
C2_Witness ==
    /\ pc = "tensors"
    /\ n_chars > seq_length + 1
    /\ n_patterns = n_chars - seq_length

\* The last n elements of s.
LastN(s, n) == SubSeq(s, Len(s) - n + 1, Len(s))

\* C3: at the start of every generation iteration the window `pattern` has
\* exactly seq_length elements and, after k iterations, is the last
\* seq_length elements of the seed followed by the k generated indices; the
\* tensor x fed to the model has seq_length time steps.
C3_GenerationWindow ==
    pc = "generate" =>
        /\ Len(generated) = gi
        /\ Len(Pattern) = seq_length
        /\ Pattern = LastN(seed \o generated, seq_length)
        /\ gi > 0 => Len(x) = 1 /\ Len(x[1]) = seq_length

\* Two characters have been generated and the window has moved off the seed.
C3_Witness ==
    /\ pc = "generate"
    /\ gi >= 2
    /\ Pattern # seed
    /\ Pattern[seq_length] = generated[gi]

\* C6: char_to_int is injective, its domain is the set of distinct characters
\* of the lower-cased raw_text, and its values are 0..n_vocab-1 in sorted
\* character order.
C6_CharMap ==
    Mapped =>
        /\ DOMAIN char_to_int = SetOf(raw_text)
        /\ \A c, d \in DOMAIN char_to_int :
               c < d => char_to_int[c] < char_to_int[d]
        /\ {char_to_int[c] : c \in DOMAIN char_to_int} = 0..(n_vocab - 1)
        /\ n_vocab = Cardinality(SetOf(raw_text))

\* A text with a repeated character and a vocabulary of three.
C6_Witness ==
    /\ pc = "dataset"
    /\ n_vocab = 3
    /\ n_chars > n_vocab

\* C7: int_to_char[char_to_int[c]] = c for every character c of the
\* vocabulary, char_to_int[int_to_char[k]] = k for every k in 0..n_vocab-1,
\* and decoding an encoded pattern gives back its slice of the text.
C7_RoundTrip ==
    Mapped =>
        /\ \A c \in DOMAIN char_to_int :
               /\ char_to_int[c] \in DOMAIN int_to_char
               /\ int_to_char[char_to_int[c]] = c
        /\ \A k \in 0..(n_vocab - 1) :
               /\ k \in DOMAIN int_to_char
               /\ int_to_char[k] \in DOMAIN char_to_int
               /\ char_to_int[int_to_char[k]] = k
        /\ Prepared =>
               \A p \in 1..Len(dataX) :
                   /\ \A j \in 1..Len(dataX[p]) : dataX[p][j] \in DOMAIN int_to_char
                   /\ [j \in 1..Len(dataX[p]) |-> int_to_char[dataX[p][j]]]
                          = Slice(raw_text, p - 1, p - 1 + seq_length)

\* Patterns over a vocabulary of at least two characters have been encoded.
C7_Witness ==
    /\ pc = "tensors"
    /\ n_vocab >= 2
    /\ Len(dataX) >= 2
    /\ dataX[1][1] # dataX[1][2]

\* to_categorical has run.
Encoded == pc \in {"define", "weights", "seed", "generate", "done"}

\* C8: for every pattern r the row y[r] is zero everywhere but for exactly
\* one 1, in the column dataY[r].
C8_OneHot ==
    Encoded =>
        /\ Len(y) = Len(dataY)
        /\ \A r \in 1..Len(dataY) :
               /\ dataY[r] \in DOMAIN y[r]
               /\ \A c \in DOMAIN y[r] : y[r][c] = IF c = dataY[r] THEN 1 ELSE 0
               /\ Cardinality({c \in DOMAIN y[r] : y[r][c] = 1}) = 1

\* Two patterns with different targets have been one-hot encoded.
C8_Witness ==
    /\ pc = "define"
    /\ Len(y) >= 2
    /\ y[1] # y[2]

\* C9: every one-hot vector y[r], and the softmax layer Dense(y.shape[1]),
\* has as many entries as the vocabulary has characters (n_vocab).
C9_OutputWidthIsVocab ==
    Encoded =>
        /\ \A r \in 1..Len(y) : Cardinality(DOMAIN y[r]) = n_vocab
        /\ pc # "define" => out_units = n_vocab

\* C10: every value of the training tensor X and of the tensor x of a
\* generation step is an encoded integer v, 0 <= v < n_vocab, over n_vocab:
\* it lies in [0, 1).
InUnitRange(q) == q.den = n_vocab /\ 0 <= q.num /\ q.num < q.den
C10_InputsRescaled ==
    /\ \A p \in 1..Len(X) : \A t \in 1..Len(X[p]) : InUnitRange(X[p][t][1])
    /\ \A p \in 1..Len(x) : \A t \in 1..Len(x[p]) : InUnitRange(x[p][t][1])

\* A generation step has fed the model a window holding the largest index.
C10_Witness ==
    /\ pc = "generate"
    /\ gi >= 2
    /\ Len(X) >= 2
    /\ \E t \in 1..Len(x[1]) : x[1][t][1].num = n_vocab - 1
    /\ \E t \in 1..Len(x[1]) : x[1][t][1].num = 0

\* Epoch e ended with a loss strictly below that of every earlier epoch.
Improved(e) == \A k \in 1..(e - 1) : history[e] < history[k]

\* C4: during fit, the weights as they are at the end of an epoch are written
\* to that epoch's checkpoint file if and only if the epoch's loss is
\* strictly lower than the loss of every earlier epoch; the first epoch
\* always is written.
C4_CheckpointOnImprovement ==
    /\ Len(history) = epoch
    /\ \A e \in 1..epoch :
          /\ (\E f \in files : f.name[1] = e) <=> Improved(e)
          /\ Improved(e) =>
                \E f \in files : f.name = Filepath(e, history[e]) /\ f.weights = e
    /\ epoch >= 1 => \E f \in files : f.name[1] = 1

\* The first and the third epoch improved, the second repeated the first's
\* loss or did worse.
C4_Witness ==
    /\ epoch >= 3
    /\ history[2] >= history[1]
    /\ history[3] < history[1]
    /\ \E f \in files : f.name[1] = 3
    /\ ~(\E f \in files : f.name[1] = 2)

\* C5: whatever the losses of the epochs, the weights file that is loaded
\* for generation is the checkpoint of the epoch with the lowest loss of
\* the training run.
C5_BestWeightsLoaded ==
    pc \in {"loaded", "error"} =>
        /\ pc = "loaded"
        /\ weights \in 1..epochs
        /\ \A k \in 1..epochs : history[weights] <= history[k]

\* C11: whatever the seed, the generation loop writes one character per
\* iteration, in the order generated, never runs past n_generate (1,000 in
\* the notebook) iterations, can always take its next step, and "Done." is
\* printed only after exactly n_generate characters have been written.
C11_BoundedGeneration ==
    /\ pc = "generate" =>
          /\ gi <= n_generate
          /\ Len(output) = gi
          /\ ENABLED (GenStep \/ GenDone)
    /\ pc = "done" =>
          /\ gi = n_generate
          /\ Len(output) = n_generate
    /\ pc \in {"generate", "done"} =>
          /\ Len(generated) = Len(output)
          /\ \A k \in 1..Len(output) : output[k] = int_to_char[generated[k]]

\* "Done." has been printed after two different characters were written.
C11_Witness ==
    /\ pc = "done"
    /\ Len(output) = n_generate
    /\ output[1] # output[2]
    /\ start > 0

\* C16: generation leaves every entry of dataX as the dataset loop built
\* it; dataX[start] keeps its seq_length elements, equal to the seed.
C16_DatasetNotMutated ==
    pc \in {"generate", "done"} =>
        /\ Len(dataX[start + 1]) = seq_length
        /\ dataX[start + 1] = seed
        /\ \A p \in 1..Len(dataX) :
               dataX[p] = Encode(char_to_int, Slice(raw_text, p - 1, p - 1 + seq_length))

\* data2 has been prepared.
DataReady == pc \in {"spearman", "kendall", "done"}

C14_RankInvariance ==
    /\ pc \in {"kendall_t", "done_t"} =>
          coefs.rho_a = coefs.rho /\ coefs.rho_b = coefs.rho
    /\ pc = "done_t" =>
          coefs.tau_a = coefs.tau /\ coefs.tau_b = coefs.tau

\* Both coefficients are known for samples with a tie, under a map that is
\* not a straight line, and neither is nan, 1 or -1.
C14_Witness ==
    /\ pc = "done_t"
    /\ tf[2] - tf[1] # tf[1] - tf[0]
    /\ Len(data1) = RankLen
    /\ Cardinality(SetOf(data1)) = 2
    /\ ~coefs.rho.nan /\ coefs.rho.n2 # coefs.rho.d2 /\ coefs.rho.sign # 0
    /\ ~coefs.tau.nan /\ coefs.tau.n2 # coefs.tau.d2 /\ coefs.tau.sign # 0

\* The two floats differ by no more than the rounding of three operations.
Close(a, b) ==
    /\ ~a.nan /\ ~b.nan
    /\ Abs(a.v - b.v) * Pow2(MantBits - 2) <= Max(Abs(a.v), Abs(b.v))

PowerOfTwo(n) == \E e \in 0..n : Pow2(e) = n

====
